---- MODULE Spec2Model ----
(***************************************************************************)
(* OpenCodeClient (src/src/opencode_client/client.py) with the data model  *)
(* of session.py, against an HTTP server holding the sessions.             *)
(*                                                                         *)
(* One action per public coroutine of the client.  A call runs from its    *)
(* first line to its return or raise in one step: the client has a single  *)
(* logical thread of control and callers serialise their calls.            *)
(***************************************************************************)
EXTENDS Naturals, Sequences, FiniteSets, TLC

VARIABLES
    self,      \* the OpenCodeClient object: attribute name -> value
    server,    \* the sessions alive on the server, newest first
    nextId,    \* how many sessions the server has created so far
    last       \* the call that has just completed (history variable)

vars == <<self, server, nextId, last>>

(***************************************************************************)
(* Bounds                                                                  *)
(***************************************************************************)
MaxSessions == 2        \* sessions created in a behaviour of Spec
MaxChatSessions == 1    \* sessions created in a behaviour of the other two
MaxHistory == 2         \* SpecResolve: send_message while chat_history is shorter
MaxComposeHistory == 1  \* SpecCompose: send_message while chat_history is shorter

(***************************************************************************)
(* Python values                                                           *)
(***************************************************************************)
\* None where an object (Session, list, message) is expected
None == [py |-> "NoneType"]
\* None where a str is expected (Optional[str])
NoneStr == "<None>"

\* `not s` for an Optional[str]
Falsy(s) == s \in {NoneStr, ""}
\* `a or b` for Optional[str] operands
Or(a, b) == IF Falsy(a) THEN b ELSE a

\* Union[str, List[str]] arguments carry their runtime type
Str(s) == [py |-> "str", v |-> s]
List(xs) == [py |-> "list", v |-> xs]
isinstance_list(x) == x.py = "list"
\* truthiness of an Optional[Union[str, List[str]]]
Truthy(x) ==
    CASE x.py = "NoneType" -> FALSE
      [] x.py = "str" -> x.v # ""
      [] x.py = "list" -> x.v # <<>>

startswith(s, p) == Len(s) >= Len(p) /\ SubSeq(s, 1, Len(p)) = p
endswith(s, p) == Len(s) >= Len(p) /\ SubSeq(s, Len(s) - Len(p) + 1, Len(s)) = p

(***************************************************************************)
(* The server: POST/GET/PATCH/DELETE on /session                           *)
(***************************************************************************)
SessionIdOf(n) == "ses_" \o ToString(n)
DefaultTitle == "New session"

\* the JSON of a session; a root session carries no parentID key
SessionJSON(id, title, parent) ==
    LET base == [id |-> id, title |-> title, version |-> "1", projectID |-> "p",
                 directory |-> "/work", time |-> [created |-> 0, updated |-> 0]]
    IN  IF parent = "" THEN base
        ELSE [k \in DOMAIN base \cup {"parentID"} |->
                 IF k = "parentID" THEN parent ELSE base[k]]

Alive(srv, id) == \E i \in 1..Len(srv) : srv[i].id = id

RECURSIVE Without(_, _)
Without(srv, id) ==
    IF srv = <<>> THEN <<>>
    ELSE IF Head(srv).id = id THEN Without(Tail(srv), id)
    ELSE <<Head(srv)>> \o Without(Tail(srv), id)

Retitled(srv, id, title) ==
    [i \in 1..Len(srv) |->
        IF srv[i].id = id THEN [srv[i] EXCEPT !.title = title] ELSE srv[i]]

SessionPrefix == "/session/"
\* the {id} of /session/{id} and /session/{id}/<verb>
PathId(url, verb) ==
    SubSeq(url, Len(SessionPrefix) + 1, Len(url) - Len(verb))

AssistantJSON(id, message) ==
    [info |-> [sessionID |-> id, modelID |-> message.modelID,
               providerID |-> message.providerID, mode |-> message.mode],
     parts |-> <<[type |-> "step-start", sessionID |-> id],
                 [type |-> "text", sessionID |-> id, text |-> "ok"],
                 [type |-> "step-finish", sessionID |-> id]>>,
     bloked |-> FALSE]

NotFound(srv, n) == [status |-> 404, body |-> None, server |-> srv, nextId |-> n]

\* what the server answers to one request, and the state it is left in
ServerHandle(req, srv, n) ==
    CASE req.method = "POST" /\ req.url = "/session" ->
            LET title == IF req.json.title = NoneStr THEN DefaultTitle
                         ELSE req.json.title
                s == SessionJSON(SessionIdOf(n + 1), title, req.json.parentID)
            IN  [status |-> 200, body |-> s, server |-> <<s>> \o srv, nextId |-> n + 1]
      [] req.method = "GET" /\ req.url = "/session" ->
            [status |-> 200, body |-> srv, server |-> srv, nextId |-> n]
      [] req.method = "PATCH" ->
            LET id == PathId(req.url, "")
            IN  IF Alive(srv, id)
                THEN [status |-> 200, body |-> None,
                      server |-> Retitled(srv, id, req.json.title), nextId |-> n]
                ELSE NotFound(srv, n)
      [] req.method = "DELETE" ->
            LET id == PathId(req.url, "")
            IN  IF Alive(srv, id)
                THEN [status |-> 200, body |-> None,
                      server |-> Without(srv, id), nextId |-> n]
                ELSE NotFound(srv, n)
      [] req.method = "POST" /\ endswith(req.url, "/abort") ->
            LET id == PathId(req.url, "/abort")
            IN  IF Alive(srv, id)
                THEN [status |-> 200, body |-> None, server |-> srv, nextId |-> n]
                ELSE NotFound(srv, n)
      [] req.method = "POST" /\ endswith(req.url, "/message") ->
            LET id == PathId(req.url, "/message")
            IN  IF Alive(srv, id)
                THEN [status |-> 200, body |-> AssistantJSON(id, req.json),
                      server |-> srv, nextId |-> n]
                ELSE NotFound(srv, n)

(***************************************************************************)
(* One HTTP call: `async with self._get_client()`, the request and         *)
(* res.raise_for_status().  The outcomes: the server's answer (an error    *)
(* status raises HTTPStatusError), a connection that is never made, and a  *)
(* response that does not arrive within self.timeout although the server   *)
(* has handled the request.  body holds res.json() when a response came.   *)
(***************************************************************************)
NoError == "<no error>"

Request(method, url, json) == [method |-> method, url |-> url, json |-> json]

Exchange(req, srv, n) ==
    LET r == ServerHandle(req, srv, n)
    IN  { [raised |-> IF r.status = 200 THEN NoError ELSE "HTTPStatusError",
           body |-> <<r.body>>, server |-> r.server, nextId |-> r.nextId],
          [raised |-> "ConnectError", body |-> <<>>, server |-> srv, nextId |-> n],
          [raised |-> "ReadTimeout", body |-> <<>>,
           server |-> r.server, nextId |-> r.nextId] }

(***************************************************************************)
(* session.py: Session                                                     *)
(***************************************************************************)
\* Session(**res.json()): parentID defaults to ""
Session(json) ==
    [id |-> json.id, title |-> json.title, version |-> json.version,
     projectID |-> json.projectID, directory |-> json.directory,
     time |-> json.time,
     parentID |-> IF "parentID" \in DOMAIN json THEN json.parentID ELSE ""]

(***************************************************************************)
(* client.py: OpenCodeClient                                               *)
(***************************************************************************)
\* __init__
OpenCodeClient(base_url, model_provider, model, timeout) ==
    [base_url |-> base_url, model_provider |-> model_provider, model |-> model,
     timeout |-> timeout, _current_session |-> None, chat_history |-> <<>>]

\* mutant: the created session is returned but never made current
SetCurrentSession_forgotten(obj, session) == obj

\* self._current_session = Session(...)
SetCurrentSession(obj, session) == [obj EXCEPT !._current_session = session]

\* mutant: the message is put at the front of the history
AppendHistory_front(obj, message) ==
    [obj EXCEPT !.chat_history = <<message>> \o @]

\* mutant: the message is not recorded
AppendHistory_dropped(obj, message) == obj

\* self.chat_history.append(message)
AppendHistory(obj, message) ==
    [obj EXCEPT !.chat_history = Append(@, message)]

\* mutant: a missing identifier is formatted into the path as str(None)
ResolveSessionId_formatted(obj, session_id) ==
    LET id == Or(session_id,
                 IF obj._current_session # None THEN obj._current_session.id
                 ELSE NoneStr)
    IN  IF Falsy(id) THEN "None" ELSE id

\* mutant: the current session is never consulted
ResolveSessionId_explicit(obj, session_id) == session_id

\* session_id or (self._current_session.id if self._current_session else None)
ResolveSessionId(obj, session_id) ==
    Or(session_id,
       IF obj._current_session # None THEN obj._current_session.id ELSE NoneStr)

_delete_session(session_id, srv, n) ==
    LET req == Request("DELETE", SessionPrefix \o session_id, None)
    IN  {[req |-> req, res |-> o] : o \in Exchange(req, srv, n)}

_update_session(session_id, title, srv, n) ==
    LET req == Request("PATCH", SessionPrefix \o session_id, [title |-> title])
    IN  {[req |-> req, res |-> o] : o \in Exchange(req, srv, n)}

_abort_session(session_id, srv, n) ==
    LET req == Request("POST", SessionPrefix \o session_id \o "/abort", None)
    IN  {[req |-> req, res |-> o] : o \in Exchange(req, srv, n)}

\* json=asdict(message)
_send_message_to_session(session_id, message, srv, n) ==
    LET req == Request("POST", SessionPrefix \o session_id \o "/message", message)
    IN  {[req |-> req, res |-> o] : o \in Exchange(req, srv, n)}

(***************************************************************************)
(* The record of a completed call                                          *)
(***************************************************************************)
NoCall ==
    [op |-> "none", args |-> None, raised |-> NoError, result |-> None,
     requests |-> <<>>, warned |-> <<>>, before |-> None, sessionsBefore |-> <<>>]

Completed(op, args, raised, result, requests, warned) ==
    [op |-> op, args |-> args, raised |-> raised, result |-> result,
     requests |-> requests, warned |-> warned,
     before |-> self, sessionsBefore |-> server]

\* a call that raises before it reaches the network
RaisesLocally(op, args, error) ==
    /\ last' = Completed(op, args, error, None, <<>>, <<>>)
    /\ UNCHANGED <<self, server, nextId>>

Init ==
    /\ self = OpenCodeClient("http://127.0.0.1:4596", "openai", "gpt-5", 600)
    /\ server = <<>>
    /\ nextId = 0
    /\ last = NoCall

create_current_session(title, parent_id) ==
    LET args == [title |-> title, parent_id |-> parent_id]
        req == Request("POST", "/session",
                       [parentID |-> Or(parent_id, ""), title |-> title])
    IN  \E o \in Exchange(req, server, nextId) :
           /\ server' = o.server
           /\ nextId' = o.nextId
           /\ IF o.raised = NoError
              THEN /\ self' = SetCurrentSession(self, Session(o.body[1]))
                   /\ last' = Completed("create_current_session", args, NoError,
                                        self'._current_session, <<req>>, <<>>)
              ELSE /\ self' = self
                   /\ last' = Completed("create_current_session", args, o.raised,
                                        None, <<req>>, <<>>)

\* sessions.append(Session(**session)) for each session of the payload
ListedSessions(payload) == [i \in 1..Len(payload) |-> Session(payload[i])]

list_sessions ==
    LET req == Request("GET", "/session", None)
    IN  \E o \in Exchange(req, server, nextId) :
           /\ server' = o.server
           /\ nextId' = o.nextId
           /\ self' = self
           /\ IF o.raised = NoError
              THEN last' = Completed("list_sessions", None, NoError,
                                     ListedSessions(o.body[1]),
                                     <<req>>, <<>>)
              ELSE last' = Completed("list_sessions", None, o.raised, None,
                                     <<req>>, <<>>)

\* mutant: deleting the current session also clears the pointer to it
delete_session_clears(session_id) ==
    LET args == [session_id |-> session_id]
        id == ResolveSessionId(self, session_id)
    IN  IF Falsy(id)
        THEN RaisesLocally("delete_session", args, "ValueError")
        ELSE \E x \in _delete_session(id, server, nextId) :
                /\ server' = x.res.server
                /\ nextId' = x.res.nextId
                /\ self' = IF x.res.raised = NoError /\ self._current_session # None
                               /\ self._current_session.id = id
                            THEN SetCurrentSession(self, None)
                            ELSE self
                /\ last' = Completed("delete_session", args, x.res.raised, None,
                                     <<x.req>>, <<>>)

delete_session(session_id) ==
    LET args == [session_id |-> session_id]
        id == ResolveSessionId(self, session_id)
    IN  IF Falsy(id)
        THEN RaisesLocally("delete_session", args, "ValueError")
        ELSE \E x \in _delete_session(id, server, nextId) :
                /\ server' = x.res.server
                /\ nextId' = x.res.nextId
                /\ self' = self
                /\ last' = Completed("delete_session", args, x.res.raised, None,
                                     <<x.req>>, <<>>)

update_session(session_id, title) ==
    LET args == [session_id |-> session_id, title |-> title]
    IN  IF Falsy(title)
        THEN /\ last' = Completed("update_session", args, NoError, None, <<>>, <<>>)
             /\ UNCHANGED <<self, server, nextId>>
        ELSE LET id == ResolveSessionId(self, session_id)
             IN  IF Falsy(id)
                 THEN RaisesLocally("update_session", args, "ValueError")
                 ELSE \E x \in _update_session(id, title, server, nextId) :
                         /\ server' = x.res.server
                         /\ nextId' = x.res.nextId
                         /\ self' = self
                         /\ last' = Completed("update_session", args, x.res.raised,
                                              None, <<x.req>>, <<>>)

abort_session(session_id) ==
    LET args == [session_id |-> session_id]
        id == ResolveSessionId(self, session_id)
    IN  IF Falsy(id)
        THEN RaisesLocally("abort_session", args, "ValueError")
        ELSE \E x \in _abort_session(id, server, nextId) :
                /\ server' = x.res.server
                /\ nextId' = x.res.nextId
                /\ self' = self
                /\ last' = Completed("abort_session", args, x.res.raised, None,
                                     <<x.req>>, <<>>)

(***************************************************************************)
(* session.py: parts and messages                                          *)
(***************************************************************************)
\* the working directory of the process and the files on its disk
Cwd == "/work"
Disk ==
    [p \in {"/work/notes.txt", "/work/README", "/work/logo.png",
            "/work/secret.txt", "/work/latin.txt", "/work/docs"} |->
        CASE p = "/work/notes.txt" ->
                [isfile |-> TRUE, readable |-> TRUE, decodable |-> TRUE, content |-> "remember"]
          [] p = "/work/README" ->
                [isfile |-> TRUE, readable |-> TRUE, decodable |-> TRUE, content |-> "read me"]
          [] p = "/work/logo.png" ->
                [isfile |-> TRUE, readable |-> TRUE, decodable |-> FALSE, content |-> ""]
          [] p = "/work/secret.txt" ->
                [isfile |-> TRUE, readable |-> FALSE, decodable |-> TRUE, content |-> "key"]
          [] p = "/work/latin.txt" ->
                [isfile |-> TRUE, readable |-> TRUE, decodable |-> FALSE, content |-> ""]
          [] p = "/work/docs" ->
                [isfile |-> FALSE, readable |-> FALSE, decodable |-> FALSE, content |-> ""]]

\* str(Path(file).resolve())
resolve(file) == IF startswith(file, "/") THEN file ELSE Cwd \o "/" \o file

\* mimetypes.guess_type(file)[0], by the extension
_raw_guess_mimetypes(file) ==
    CASE endswith(file, ".txt") -> "text/plain"
      [] endswith(file, ".png") -> "image/png"
      [] OTHER -> NoneStr

\* what a constructor gives: the object, or the exception it raises
Returns(value) == [raised |-> NoError, value |-> <<value>>]
Raises(error) == [raised |-> error, value |-> <<>>]

TextPart_from_string(string) == [text |-> string, type |-> "text"]

\* open(file, "r").read()
FileSourceText_from_file(file) ==
    IF ~Disk[file].readable THEN Raises("PermissionError")
    ELSE IF ~Disk[file].decodable THEN Raises("UnicodeDecodeError")
    ELSE Returns([start |-> 0, end |-> Len(Disk[file].content),
                  value |-> Disk[file].content])

FileSource_from_file(file) ==
    LET text == FileSourceText_from_file(file)
    IN  IF text.raised # NoError THEN text
        ELSE Returns([path |-> file, text |-> text.value[1], type |-> "file"])

FilePart_from_file(file) ==
    LET abs_path == resolve(file)
    IN  IF abs_path \in DOMAIN Disk /\ Disk[abs_path].isfile
        THEN LET mimetype == _raw_guess_mimetypes(abs_path)
             IN  IF Falsy(mimetype) THEN Raises("ValueError")
                 ELSE IF ~startswith(mimetype, "text/") THEN Raises("ValueError")
                 ELSE LET source == FileSource_from_file(abs_path)
                      IN  IF source.raised # NoError THEN source
                          ELSE Returns([mime |-> mimetype, url |-> "file://" \o abs_path,
                                        type |-> "file", id |-> "", filename |-> file,
                                        source |-> source.value[1]])
        ELSE Raises("ValueError")

\* an empty dict
EmptyDict == [py |-> "dict"]

\* mutant: a URL of unknown type is sent as a binary attachment
FilePart_from_url_octet(url) ==
    LET mimetype == _raw_guess_mimetypes(url)
    IN  Returns([mime |-> IF Falsy(mimetype) THEN "application/octet-stream"
                          ELSE mimetype,
                 url |-> url, type |-> "file", id |-> "", filename |-> "",
                 source |-> EmptyDict])

FilePart_from_url(url) ==
    LET mimetype == _raw_guess_mimetypes(url)
    IN  IF Falsy(mimetype) THEN Raises("ValueError")
        ELSE Returns([mime |-> mimetype, url |-> url, type |-> "file", id |-> "",
                      filename |-> "", source |-> EmptyDict])

UserMessage(modelID, providerID, parts, system) ==
    [modelID |-> modelID, providerID |-> providerID, parts |-> parts,
     messageID |-> "", mode |-> "build", system |-> system, tools |-> EmptyDict]

\* AssistantMessage(**res.json())
AssistantMessage(json) ==
    [info |-> json.info, parts |-> json.parts, bloked |-> json.bloked]

(***************************************************************************)
(* client.py: send_message, the assembly of the parts (lines 117-141)      *)
(***************************************************************************)
RemoteSchemes == {"http://", "https://", "ftp://", "file://"}
IsRemote(f) == \E p \in RemoteSchemes : startswith(f, p)

\* `except ValueError`: the class and its subclasses
CaughtAsValueError(error) == error \in {"ValueError", "UnicodeDecodeError"}

\* the state of the assembly: the parts so far, the files warned about, and
\* the exception that ended it
Assembly(parts) == [parts |-> parts, warned |-> <<>>, raised |-> NoError]

\* one file of the file argument
AddFile(acc, f) ==
    IF acc.raised # NoError THEN acc
    ELSE IF IsRemote(f)
    THEN LET part == FilePart_from_url(f)
         IN  IF part.raised # NoError THEN [acc EXCEPT !.raised = part.raised]
             ELSE [acc EXCEPT !.parts = Append(@, part.value[1])]
    ELSE LET part == FilePart_from_file(f)
         IN  IF part.raised = NoError
             THEN [acc EXCEPT !.parts = Append(@, part.value[1])]
             ELSE IF CaughtAsValueError(part.raised)
             THEN [acc EXCEPT !.warned = Append(@, f)]
             ELSE [acc EXCEPT !.raised = part.raised]

RECURSIVE AddFiles(_, _)
AddFiles(acc, files) ==
    IF files = <<>> THEN acc
    ELSE AddFiles(AddFile(acc, Head(files)), Tail(files))

TextParts(text) ==
    IF isinstance_list(text)
    THEN [i \in 1..Len(text.v) |-> TextPart_from_string(text.v[i])]
    ELSE <<TextPart_from_string(text.v)>>

AssembleParts(text, file) ==
    LET acc == Assembly(TextParts(text))
    IN  IF ~Truthy(file) THEN acc
        ELSE IF isinstance_list(file) THEN AddFiles(acc, file.v)
        ELSE AddFile(acc, file.v)

send_message(text, file, system_message, session_id) ==
    LET args == [text |-> text, file |-> file, system_message |-> system_message,
                 session_id |-> session_id]
        id == ResolveSessionId(self, session_id)
    IN  IF Falsy(id)
        THEN RaisesLocally("send_message", args, "ValueError")
        ELSE LET built == AssembleParts(text, file)
             IN  IF built.raised # NoError
                 THEN /\ last' = Completed("send_message", args, built.raised, None,
                                           <<>>, built.warned)
                      /\ UNCHANGED <<self, server, nextId>>
                 ELSE LET user_message == UserMessage(self.model, self.model_provider,
                                                      built.parts, system_message)
                          sent == AppendHistory(self, user_message)
                      IN  \E x \in _send_message_to_session(id, user_message,
                                                            server, nextId) :
                             /\ server' = x.res.server
                             /\ nextId' = x.res.nextId
                             /\ IF x.res.raised = NoError
                                THEN LET assistant_message ==
                                             AssistantMessage(x.res.body[1])
                                     IN  /\ self' = AppendHistory(sent, assistant_message)
                                         /\ last' = Completed("send_message", args,
                                                NoError, assistant_message,
                                                <<x.req>>, built.warned)
                                ELSE /\ self' = sent
                                     /\ last' = Completed("send_message", args,
                                                x.res.raised, None,
                                                <<x.req>>, built.warned)

(***************************************************************************)
(* The session lifecycle: create, list, update, delete, abort              *)
(***************************************************************************)
CreateTitles == {NoneStr, "test"}
UpdateTitles == {NoneStr, "", "hello"}
ParentIds == {NoneStr, SessionIdOf(1)}
SessionIds == {NoneStr, ""} \cup {SessionIdOf(i) : i \in 1..MaxSessions}

Next ==
    \/ /\ nextId < MaxSessions
       /\ \E title \in CreateTitles, parent_id \in ParentIds :
             create_current_session(title, parent_id)
    \/ list_sessions
    \/ \E session_id \in SessionIds : delete_session(session_id)
    \/ \E session_id \in SessionIds, title \in UpdateTitles :
          update_session(session_id, title)
    \/ \E session_id \in SessionIds : abort_session(session_id)

Spec == Init /\ [][Next]_vars

(***************************************************************************)
(* The operations that resolve a session identifier, send_message among    *)
(* them, on a client that talks in one or two sessions                     *)
(***************************************************************************)
ChatIds == {NoneStr, ""} \cup {SessionIdOf(i) : i \in 1..MaxChatSessions}
ChatTexts == {Str("hi"), List(<<"a", "b">>)}

NextResolve ==
    \/ /\ nextId < MaxChatSessions
       /\ create_current_session("test", NoneStr)
    \/ \E session_id \in ChatIds : delete_session(session_id)
    \/ \E session_id \in ChatIds, title \in {NoneStr, "hello"} :
          update_session(session_id, title)
    \/ \E session_id \in ChatIds : abort_session(session_id)
    \/ /\ Len(self.chat_history) < MaxHistory
       /\ \E text \in ChatTexts, session_id \in ChatIds :
             send_message(text, None, NoneStr, session_id)

SpecResolve == Init /\ [][NextResolve]_vars

(***************************************************************************)
(* send_message with file arguments                                        *)
(***************************************************************************)
FileNames ==
    {"notes.txt", "missing.txt", "README", "logo.png", "secret.txt", "latin.txt",
     "docs", "https://example.com/a.txt", "http://example.com/data"}
\* the two that yield a part wherever they stand
GoodFiles == {"notes.txt", "https://example.com/a.txt"}
\* no file, one file, and every file before and after a good one
FileArgs ==
    {None, Str(""), List(<<>>)}
        \cup {Str(f) : f \in FileNames}
        \cup {List(<<f, g>>) : f \in FileNames, g \in GoodFiles}
        \cup {List(<<g, f>>) : f \in FileNames, g \in GoodFiles}
ComposeIds == {NoneStr, SessionIdOf(1)}

NextCompose ==
    \/ /\ nextId < MaxChatSessions
       /\ create_current_session("test", NoneStr)
    \/ /\ Len(self.chat_history) < MaxComposeHistory
       /\ \E file \in FileArgs, session_id \in ComposeIds :
             send_message(Str("hi"), file, "be brief", session_id)

SpecCompose == Init /\ [][NextCompose]_vars

(***************************************************************************)
(* Properties.  Each is read in the state a call has just completed in:    *)
(* last is that call, last.before the client it started from,              *)
(* last.sessionsBefore the server's sessions it started from.              *)
(***************************************************************************)
Returned(op) == last.op = op /\ last.raised = NoError
HTTPErrors == {"HTTPStatusError", "ConnectError", "ReadTimeout"}
ResolvingOps == {"update_session", "delete_session", "abort_session", "send_message"}
\* the call named no session and the client had none
NoSessionToResolve ==
    /\ last.op \in ResolvingOps
    /\ Falsy(last.args.session_id)
    /\ last.before._current_session = None

C3_HistoryGrowsByPair ==
    Returned("send_message") =>
        /\ Len(last.requests) = 1
        /\ last.result # None
        /\ self.chat_history =
               last.before.chat_history \o <<last.requests[1].json, last.result>>
        /\ last.requests[1].json.modelID = self.model
        /\ last.requests[1].json.providerID = self.model_provider

C3_Witness ==
    /\ Returned("send_message")
    /\ last.before.chat_history # <<>>
    /\ isinstance_list(last.args.text)
    /\ Len(last.requests[1].json.parts) = 2

\* C4: delete_session without an argument, on a client with a current
\* session, sends DELETE /session/{id of the current session}; when it
\* succeeds, list_sessions returns one session fewer than it would have
\* returned just before.
C4_DeleteCurrent ==
    (/\ last.op = "delete_session"
     /\ last.args.session_id = NoneStr
     /\ last.before._current_session # None) =>
        /\ last.requests =
               <<Request("DELETE", "/session/" \o last.before._current_session.id, None)>>
        /\ (last.raised = NoError =>
               Len(ListedSessions(server)) + 1 = Len(ListedSessions(last.sessionsBefore)))

C4_Witness ==
    /\ Returned("delete_session")
    /\ last.args.session_id = NoneStr
    /\ Len(last.sessionsBefore) = 2
    /\ Len(server) = 1
    /\ server[1].id # last.before._current_session.id

\* the files of a file argument, in order
FilesOf(file) ==
    IF ~Truthy(file) THEN <<>>
    ELSE IF isinstance_list(file) THEN file.v ELSE <<file.v>>
FileCount(parts) == Cardinality({i \in 1..Len(parts) : parts[i].type = "file"})
Resolved == ~Falsy(ResolveSessionId(last.before, last.args.session_id))
\* a remote file whose type cannot be inferred
BadUrl(f) == IsRemote(f) /\ _raw_guess_mimetypes(f) = NoneStr
HasBadUrl(files) == \E i \in 1..Len(files) : BadUrl(files[i])
\* a local file no FilePart can be made of
BadLocal(f) == ~IsRemote(f) /\ FilePart_from_file(f).raised # NoError

\* C5: in send_message a local file that no FilePart can be made of (missing,
\* unreadable, of unknown or non-text type) is skipped with a warning and the
\* message is sent with the parts of all the other inputs.
C5_LocalFailureIsSkipped ==
    (/\ last.op = "send_message"
     /\ Resolved
     /\ ~HasBadUrl(FilesOf(last.args.file))) =>
        LET files == FilesOf(last.args.file)
            bad == {i \in 1..Len(files) : BadLocal(files[i])}
        IN  /\ Len(last.requests) = 1
            /\ Len(last.warned) = Cardinality(bad)
            /\ FileCount(last.requests[1].json.parts) = Len(files) - Cardinality(bad)

\* C6: the client has a session cache, keyed by identifier: empty on a fresh
\* client, holding the created session after create_current_session, and
\* holding exactly the listed sessions after list_sessions.
C6_SessionCache ==
    /\ "_sessions" \in DOMAIN self
    /\ (last.op = "none" => DOMAIN self._sessions = {})
    /\ (Returned("create_current_session") =>
           last.result.id \in DOMAIN self._sessions)
    /\ (Returned("list_sessions") =>
           DOMAIN self._sessions =
               {last.result[i].id : i \in 1..Len(last.result)})

\* C7: update_session with a title and a session to update returns the
\* updated session, which carries the new title, and the server lists the
\* session with that title.
C7_UpdateReturnsSession ==
    (Returned("update_session") /\ ~Falsy(last.args.title)) =>
        /\ last.result # None
        /\ last.result.title = last.args.title
        /\ \E i \in 1..Len(server) :
              /\ server[i].id = last.result.id
              /\ ListedSessions(server)[i].title = last.args.title

\* C8: when the HTTP call of send_message fails, the error reaches the
\* caller, chat_history has grown by the UserMessage alone, and the current
\* session is the one it was.
C8_FailedSendKeepsUserMessage ==
    (last.op = "send_message" /\ last.requests # <<>> /\ last.raised # NoError) =>
        /\ last.raised \in HTTPErrors
        /\ last.result = None
        /\ self.chat_history =
               Append(last.before.chat_history, last.requests[1].json)
        /\ self._current_session = last.before._current_session

C8_Witness ==
    /\ last.op = "send_message"
    /\ last.raised = "HTTPStatusError"
    /\ last.before.chat_history # <<>>
    /\ Len(self.chat_history) = Len(last.before.chat_history) + 1

\* C9: send_message given a remote file whose type cannot be inferred raises:
\* no request is issued and chat_history is left as it was, whatever the
\* other inputs.  The error is a ValueError (that of FilePart.from_url, or
\* the missing session's) unless a local file of the call cannot be opened.
C9_BadUrlAbortsSend ==
    (last.op = "send_message" /\ HasBadUrl(FilesOf(last.args.file))) =>
        /\ last.raised # NoError
        /\ last.raised \notin HTTPErrors
        /\ last.requests = <<>>
        /\ self = last.before
        /\ (last.raised # "ValueError" =>
               /\ last.raised = "PermissionError"
               /\ \E i \in 1..Len(FilesOf(last.args.file)) :
                      LET f == FilesOf(last.args.file)[i]
                      IN  ~IsRemote(f) /\ FilePart_from_file(f).raised = last.raised)

C9_Witness ==
    /\ last.op = "send_message"
    /\ last.args.file = List(<<"notes.txt", "http://example.com/data">>)
    /\ last.before._current_session # None
    /\ last.raised = "ValueError"
    /\ last.warned = <<>>

\* C10: update_session, delete_session and abort_session leave the client as
\* it was, whether they succeed or fail: after the current session is
\* deleted it is still the current session, and a call that names no session
\* is sent to the current session's identifier even when the server no
\* longer has that session.
C10_LocalStateUntouched ==
    last.op \in {"update_session", "delete_session", "abort_session"} =>
        /\ self = last.before
        /\ (/\ Falsy(last.args.session_id)
            /\ last.before._current_session # None
            /\ last.requests # <<>>) =>
               startswith(last.requests[1].url,
                          "/session/" \o last.before._current_session.id)

C10_Witness ==
    /\ last.op = "delete_session"
    /\ last.args.session_id = NoneStr
    /\ self._current_session # None
    /\ ~Alive(last.sessionsBefore, self._current_session.id)
    /\ last.requests # <<>>
    /\ last.requests[1].url = "/session/" \o self._current_session.id
    /\ last.raised = "HTTPStatusError"
    /\ self.chat_history # <<>>

====
